---- MODULE Spec2Model ----
(***************************************************************************)
(* The Fusion MCP bridge: the in-process HTTP listener of the add-in       *)
(* (FusionMCPBridge.py), its handler registry (core/router.py), and the    *)
(* MCP server that proxies tool calls to it (fusion_mcp_server.py); and    *)
(* the hook launchers of inworld-tts (run-hook.py, tts-notify.py).         *)
(***************************************************************************)
EXTENDS Integers, Sequences, FiniteSets, TLC

VARIABLES
    config,      \* config.py values and the BRIDGE_DEV_RELOAD environment variable
    disk,        \* state of the add-in's sources on disk (what an import finds)
    sysmod,      \* generation of core.errors held in sys.modules, 0 = not loaded
    nextGen,     \* generation the next fresh import creates
    registry,    \* BridgeRequestHandler._registry of the class that serves requests
    rhcRegistry, \* _registry bound to server.RequestHandlerClass
    gRegistry,   \* the module-global _registry
    backlog,     \* connections waiting in the listening socket, oldest first
    handling,    \* connections accepted and being handled
    last,        \* the exchange just completed: request, response and what
                 \* serving it did; forgotten when the next connection is accepted
    calls,       \* the MCP server's tool calls
    host,        \* the active design in the host: the root component's sketches
                 \* and bodies, the user parameters, the timeline's features
    addin,       \* the add-in's globals _server and _server_thread, the
                 \* listener's shutdown flag, and what run() and stop() did
    context,     \* the FusionContext of the registry that serves requests
    hook         \* a run-hook.py process: its sys.argv, the command line it
                 \* started, bash's return code and its own exit code

vars == <<config, disk, sysmod, nextGen, registry, rhcRegistry, gRegistry,
          backlog, handling, last, calls, host, addin, context, hook>>

-----------------------------------------------------------------------------
(* Bounds *)

\* connections open at once (waiting or being handled)
MaxConns == 2
\* module generations: fresh imports of core.errors over a run
MaxGen == 3
\* MCP tool calls in one run
NumCalls == 1

-----------------------------------------------------------------------------
(* Python values *)

\* None, an absent header, an absent JSON field
None == "None"

\* a JSON value that is no string and cannot be hashed (a list, an object)
UnhashableAction == "[list]"

Truthy(v) == v # None /\ v # ""

-----------------------------------------------------------------------------
(* core/errors.py: an exception is a record; gen is the generation of the   *)
(* core.errors module whose class it is an instance of.                     *)

ValidationError(gen, message, field) ==
    [cls |-> "ValidationError", gen |-> gen, code |-> "E_BAD_ARGS",
     message |-> message,
     details |-> IF Truthy(field) THEN {<<"field", field>>} ELSE {}]

FusionAPIError(gen, message, operation) ==
    [cls |-> "FusionAPIError", gen |-> gen, code |-> "E_RUNTIME",
     message |-> message,
     details |-> IF Truthy(operation) THEN {<<"operation", operation>>} ELSE {}]

ActionNotSupportedError_renamed(gen, action) ==
    [cls |-> "ActionNotSupportedError", gen |-> gen, code |-> "E_UNSUPPORTED",
     message |-> "Unknown action: " \o action, details |-> {}]

ActionNotSupportedError(gen, action) ==
    [cls |-> "ActionNotSupportedError", gen |-> gen, code |-> "E_ACTION_UNSUPPORTED",
     message |-> "Unknown action: " \o action, details |-> {}]

\* any exception that is no BridgeError (TypeError, AttributeError, a host error)
PyException(message) ==
    [cls |-> "Exception", gen |-> 0, code |-> None, message |-> message,
     details |-> {}]

NoException ==
    [cls |-> None, gen |-> 0, code |-> None, message |-> "", details |-> {}]

\* str(e): BridgeError.__init__ passes f"{code}: {message}" to Exception
Str(e) == IF e.cls = "Exception" THEN e.message ELSE e.code \o ": " \o e.message

-----------------------------------------------------------------------------
(* JSON numbers and Python's int()                                           *)

\* a JSON number is held in tenths: Num(5) is 0.5, Num(10) is 1
Num(tenths) == [json |-> "number", tenths |-> tenths]

\* a JSON string that is no numeral
JsonString == [json |-> "string", tenths |-> 0]

\* the literal Infinity, which json.loads accepts
JsonInfinity == [json |-> "Infinity", tenths |-> 0]

\* int(value): a number is truncated toward zero, a string that is no
\* numeral raises ValueError, Infinity raises OverflowError
PyInt(value) ==
    IF value.json = "number"
    THEN [exc |-> None,
          val |-> IF value.tenths >= 0 THEN value.tenths \div 10
                  ELSE 0 - ((0 - value.tenths) \div 10)]
    ELSE IF value.json = "string" THEN [exc |-> "ValueError", val |-> 0]
    ELSE [exc |-> "OverflowError", val |-> 0]

-----------------------------------------------------------------------------
(* The host: the active design.  Names are abstract; an entity is known by   *)
(* its position in its collection.                                           *)

\* entities of one kind (sketches, bodies, user parameters) in the design
MaxEntities == 2
\* rectangles drawn in one sketch
MaxRects == 1

\* rootComponent.name
RootName == "Root"

NameOf(i) == "N" \o ToString(i)

Names == {NameOf(i) : i \in 1..MaxEntities}

\* a name as a client may write it, with surrounding blanks
Padded(n) == " " \o n \o " "

\* str.strip() on the strings requests carry
Strip(s) ==
    IF \E n \in Names : s = Padded(n) THEN CHOOSE n \in Names : s = Padded(n)
    ELSE IF s = " " THEN ""
    ELSE s

\* str.upper() on the plane names requests carry
Upper(s) == IF s = "xy" THEN "XY" ELSE s

\* sketchLines.count and profiles.count of a sketch: addTwoPointRectangle
\* adds four lines, which close one profile
LinesCount(sk) == 4 * sk.rects

ProfilesCount(sk) == sk.rects

\* faces.count of a body: an extruded rectangle
FacesCount == 6

Range(s) == {s[i] : i \in 1..Len(s)}

SketchNames(h) == [i \in 1..Len(h.sketches) |-> h.sketches[i].name]

\* position of the first element of s equal to n, 0 when there is none: a
\* "for x in collection: if x.name == n" loop
First(s, n) ==
    IF n \in Range(s)
    THEN CHOOSE i \in 1..Len(s) : s[i] = n /\ \A j \in 1..(i - 1) : s[j] # n
    ELSE 0

\* the name the host gives a new entity: the first one not in use
NewName(used) ==
    LET i == CHOOSE k \in 1..(MaxEntities + 1) :
                 NameOf(k) \notin used /\ \A j \in 1..(k - 1) : NameOf(j) \in used
    IN  NameOf(i)

WithinBounds(h) ==
    /\ Len(h.sketches) <= MaxEntities
    /\ Len(h.bodies) <= MaxEntities
    /\ Len(h.params) <= MaxEntities
    /\ \A i \in 1..Len(h.sketches) : h.sketches[i].rects <= MaxRects

\* what a handler asked of the host: a lookup by name (index is the position
\* found, 0 when the lookup failed with the given code) or a read of an
\* indexed collection
Lookup(fn, name, pos, code) ==
    [fn |-> fn, on |-> name, index |-> pos, count |-> 0, code |-> code]

ItemCall(coll, index, count) ==
    [fn |-> "item", on |-> coll, index |-> index, count |-> count, code |-> None]

\* a call that changes the design when it succeeds: add, a property set
MutatingCall(fn) ==
    [fn |-> "mutate", on |-> fn, index |-> 0, count |-> 0, code |-> None]

\* the host behaves, raises an error in the handler's mutating call, or
\* raises the "tangent to the axis" error there
NoFailure == "none"

HostError == "error"

TangentError == "tangent"

-----------------------------------------------------------------------------
(* services/validators.py: each returns [exc, ret] *)

Returned(ret) == [exc |-> NoException, ret |-> ret]

Raised(exc) == [exc |-> exc, ret |-> None]

\* a field that is absent from args is held as None
validate_required_fields(gen, values) ==
    IF \E i \in 1..Len(values) : values[i] = None
    THEN Raised(ValidationError(gen, "Missing required field", None))
    ELSE Returned(None)

validate_plane(gen, plane) ==
    IF Upper(plane) \notin {"XY", "YZ", "XZ"}
    THEN Raised(ValidationError(gen, "Invalid plane", None))
    ELSE Returned(Upper(plane))

validate_non_empty_string(gen, value, field_name) ==
    IF Strip(value) = ""
    THEN Raised(ValidationError(gen, field_name \o " must be a non-empty string", None))
    ELSE Returned(Strip(value))

\* int(value) inside "except (TypeError, ValueError)": an OverflowError is
\* not caught here
validate_non_negative_int(gen, value, field_name) ==
    LET num == PyInt(value)
    IN  IF num.exc = "OverflowError"
        THEN [exc |-> PyException("cannot convert float infinity to integer"),
              ret |-> 0]
        ELSE IF num.exc # None \/ num.val < 0
        THEN [exc |-> ValidationError(gen, field_name \o " must be a non-negative integer", None),
              ret |-> 0]
        ELSE [exc |-> NoException, ret |-> num.val]

check_parameter_name_collision(gen, name, h) ==
    IF name \in Range(h.params)
    THEN Raised(ValidationError(gen, "Parameter '" \o name \o "' already exists", None))
    ELSE Returned(None)

check_sketch_name_collision(gen, name, h) ==
    IF name \in Range(SketchNames(h))
    THEN Raised(ValidationError(gen, "Sketch '" \o name \o "' already exists", None))
    ELSE Returned(None)

-----------------------------------------------------------------------------
(* services/fusion_context.py: each property returns [context, ret], the    *)
(* context as the access leaves it and the object handed to the caller      *)

\* what adsk.core.Application.get() returns
Application == "adsk.core.Application"

\* FusionContext.__init__
FusionContext == [_app |-> None]

\* FusionContext.app
FusionContext_app(ctx) ==
    LET self == IF ctx._app = None THEN [ctx EXCEPT !._app = Application] ELSE ctx
    IN  [context |-> self, ret |-> self._app]

\* FusionContext.design: the app's activeProduct, h being the active design
FusionContext_design(ctx, h) ==
    LET app == FusionContext_app(ctx)
    IN  [context |-> app.context, ret |-> h]

\* FusionContext.root_component
FusionContext_root_component(ctx, h) ==
    LET design == FusionContext_design(ctx, h)
    IN  [context |-> design.context, ret |-> design.ret]

-----------------------------------------------------------------------------
(* services/entity_resolver.py: each returns [exc, ret, hostCalls]; ret is   *)
(* the position of the entity found                                          *)

\* a resolver that answers with the first sketch whatever the name
resolve_sketch_stale(gen, h, name) ==
    IF Len(h.sketches) = 0
    THEN [exc |-> ValidationError(gen, "Sketch '" \o name \o "' not found", None),
          ret |-> 0,
          hostCalls |-> <<Lookup("resolve_sketch", name, 0, "E_BAD_ARGS")>>]
    ELSE [exc |-> NoException, ret |-> 1,
          hostCalls |-> <<Lookup("resolve_sketch", name, 1, None)>>]

resolve_sketch(gen, h, name) ==
    LET pos == First(SketchNames(h), name)
    IN  IF pos = 0
        THEN [exc |-> ValidationError(gen, "Sketch '" \o name \o "' not found", None),
              ret |-> 0,
              hostCalls |-> <<Lookup("resolve_sketch", name, 0, "E_BAD_ARGS")>>]
        ELSE [exc |-> NoException, ret |-> pos,
              hostCalls |-> <<Lookup("resolve_sketch", name, pos, None)>>]

\* ref: [component, body]
resolve_body_ref(gen, h, ref) ==
    LET Fail(message) ==
            [exc |-> ValidationError(gen, message, None), ret |-> 0,
             hostCalls |-> <<Lookup("resolve_body_ref", ref.body, 0, "E_BAD_ARGS")>>]
        pos == First(h.bodies, ref.body)
    IN  IF ~Truthy(ref.component) \/ ~Truthy(ref.body)
        THEN Fail("bodyRef requires 'component' and 'body'")
        ELSE IF ref.component # RootName
        THEN Fail("Only bodies in the root component are supported in v0")
        ELSE IF pos = 0
        THEN Fail("Body '" \o ref.body \o "' not found")
        ELSE [exc |-> NoException, ret |-> pos,
              hostCalls |-> <<Lookup("resolve_body_ref", ref.body, pos, None)>>]

\* ref: [component, body, index], index being faceIndex
resolve_face_ref(gen, h, ref) ==
    LET body == resolve_body_ref(gen, h, [component |-> ref.component, body |-> ref.body])
        idx  == PyInt(ref.index)
        Fail(exc) == [exc |-> exc, ret |-> 0, hostCalls |-> body.hostCalls]
    IN  IF ref.component = None \/ ref.body = None
        THEN [exc |-> ValidationError(gen, "faceRef requires component, body, and faceIndex", None),
              ret |-> 0, hostCalls |-> <<>>]
        ELSE IF body.exc.cls # None THEN body
        ELSE IF idx.exc = "OverflowError"
        THEN Fail(PyException("cannot convert float infinity to integer"))
        ELSE IF idx.exc # None
        THEN Fail(ValidationError(gen, "faceIndex must be a non-negative integer", None))
        ELSE IF idx.val < 0 \/ idx.val >= FacesCount
        THEN Fail(ValidationError(gen, "faceIndex out of range", None))
        ELSE [exc |-> NoException, ret |-> body.ret,
              hostCalls |-> body.hostCalls \o <<ItemCall("faces", idx.val, FacesCount)>>]

-----------------------------------------------------------------------------
(* handlers/*.py.  validate returns [exc, ret], ret being the normalized     *)
(* arguments; execute returns [exc, host, hostCalls], host being the design  *)
(* it leaves.  A request's args is a record; a field the request omits is    *)
(* None.  When hostFails is not NoFailure the handler's mutating host call   *)
(* raises.                                                                   *)

Done(h, hostCalls) == [exc |-> NoException, host |-> h, hostCalls |-> hostCalls]

Failed(exc, h, hostCalls) == [exc |-> exc, host |-> h, hostCalls |-> hostCalls]

HostException == PyException("RuntimeError: 3 : invalid argument")

Sketch(name, rects) == [name |-> name, rects |-> rects]

\* handlers/parameters.py
CreateParameterHandler_validate(gen, args, h) ==
    LET req  == validate_required_fields(gen, <<args.name>>)
        name == validate_non_empty_string(gen, args.name, "name")
        coll == check_parameter_name_collision(gen, name.ret, h)
    IN  IF req.exc.cls # None THEN req
        ELSE IF name.exc.cls # None THEN name
        ELSE IF coll.exc.cls # None THEN coll
        ELSE Returned([kind |-> "object", name |-> name.ret])

CreateParameterHandler_execute(gen, args, h, hostFails) ==
    LET asked == <<MutatingCall("userParameters.add")>>
    IN  IF hostFails # NoFailure THEN Failed(HostException, h, asked)
        ELSE Done([h EXCEPT !.params = Append(@, args.name)], asked)

\* handlers/sketches.py
CreateSketchHandler_validate(gen, args, h) ==
    LET req   == validate_required_fields(gen, <<args.plane, args.name>>)
        plane == validate_plane(gen, args.plane)
        name  == validate_non_empty_string(gen, args.name, "name")
        coll  == check_sketch_name_collision(gen, name.ret, h)
    IN  IF req.exc.cls # None THEN req
        ELSE IF plane.exc.cls # None THEN plane
        ELSE IF name.exc.cls # None THEN name
        ELSE IF coll.exc.cls # None THEN coll
        ELSE Returned([kind |-> "object", plane |-> plane.ret, name |-> name.ret])

\* sketches.add(...) and then sketch.name = args["name"]: when the second
\* raises, the sketch stays under the name the host gave it
AddNamedSketch(h, name, hostFails, hostCalls) ==
    LET asked == hostCalls \o <<MutatingCall("sketches.add"), MutatingCall("sketch.name")>>
    IN  IF hostFails # NoFailure
        THEN Failed(HostException,
                    [h EXCEPT !.sketches =
                        Append(@, Sketch(NewName(Range(SketchNames(h))), 0))],
                    asked)
        ELSE Done([h EXCEPT !.sketches = Append(@, Sketch(name, 0))], asked)

CreateSketchHandler_execute(gen, args, h, hostFails) ==
    AddNamedSketch(h, args.name, hostFails, <<>>)

SketchDrawRectangleHandler_validate(gen, args, h) ==
    LET req    == validate_required_fields(gen, <<args.sketch>>)
        sketch == validate_non_empty_string(gen, args.sketch, "sketch")
    IN  IF req.exc.cls # None THEN req
        ELSE IF sketch.exc.cls # None THEN sketch
        ELSE Returned([kind |-> "object", sketch |-> sketch.ret])

SketchDrawRectangleHandler_execute(gen, args, h, hostFails) ==
    LET target == resolve_sketch(gen, h, args.sketch)
        asked  == target.hostCalls \o <<MutatingCall("sketchLines.addTwoPointRectangle")>>
    IN  IF target.exc.cls # None THEN Failed(target.exc, h, target.hostCalls)
        ELSE IF hostFails # NoFailure THEN Failed(HostException, h, asked)
        ELSE Done([h EXCEPT !.sketches[target.ret].rects = @ + 1], asked)

CreateSketchFromFaceHandler_validate(gen, args, h) ==
    LET req  == validate_required_fields(gen, <<args.faceRef.body, args.name>>)
        name == validate_non_empty_string(gen, args.name, "name")
        coll == check_sketch_name_collision(gen, name.ret, h)
    IN  IF req.exc.cls # None THEN req
        ELSE IF name.exc.cls # None THEN name
        ELSE IF coll.exc.cls # None THEN coll
        ELSE Returned([kind |-> "object", faceRef |-> args.faceRef, name |-> name.ret])

CreateSketchFromFaceHandler_execute(gen, args, h, hostFails) ==
    LET face == resolve_face_ref(gen, h, args.faceRef)
    IN  IF face.exc.cls # None THEN Failed(face.exc, h, face.hostCalls)
        ELSE AddNamedSketch(h, args.name, hostFails, face.hostCalls)

SetIsConstructionHandler_validate(gen, args, h) ==
    LET req    == validate_required_fields(gen, <<args.sketch>>)
        sketch == validate_non_empty_string(gen, args.sketch, "sketch")
        idx    == PyInt(args.index)
    IN  IF req.exc.cls # None THEN req
        ELSE IF sketch.exc.cls # None THEN sketch
        ELSE IF idx.exc # None \/ idx.val < 0
        THEN Raised(ValidationError(gen, "entityRef.index must be a non-negative integer",
                                    None))
        ELSE Returned([kind |-> "object", sketch |-> sketch.ret, index |-> args.index])

SetIsConstructionHandler_execute(gen, args, h, hostFails) ==
    LET target == resolve_sketch(gen, h, args.sketch)
        idx    == PyInt(args.index).val
        count  == LinesCount(h.sketches[target.ret])
        asked  == target.hostCalls \o <<ItemCall("sketchLines", idx, count),
                                        MutatingCall("line.isConstruction")>>
    IN  IF target.exc.cls # None THEN Failed(target.exc, h, target.hostCalls)
        ELSE IF idx >= count
        THEN Failed(ValidationError(gen, "Line index out of range", None), h,
                    target.hostCalls)
        ELSE IF hostFails # NoFailure THEN Failed(HostException, h, asked)
        ELSE Done(h, asked)

\* handlers/features.py
ExtrudeProfileHandler_validate(gen, args, h) ==
    LET req    == validate_required_fields(gen, <<args.sketch>>)
        sketch == validate_non_empty_string(gen, args.sketch, "sketch")
        idx    == validate_non_negative_int(gen, args.profile_index, "profile_index")
    IN  IF req.exc.cls # None THEN req
        ELSE IF sketch.exc.cls # None THEN sketch
        ELSE IF idx.exc.cls # None THEN Raised(idx.exc)
        ELSE Returned([kind |-> "object", sketch |-> sketch.ret,
                       profile_index |-> idx.ret])

\* resolve the sketch and read profiles.item(profile_index)
GetProfile(gen, args, h) ==
    LET target == resolve_sketch(gen, h, args.sketch)
        count  == ProfilesCount(h.sketches[target.ret])
    IN  IF target.exc.cls # None THEN Failed(target.exc, h, target.hostCalls)
        ELSE IF count = 0
        THEN Failed(ValidationError(gen, "Sketch has no profiles", None), h,
                    target.hostCalls)
        ELSE IF args.profile_index >= count
        THEN Failed(ValidationError(gen, "Profile index not found", None), h,
                    target.hostCalls)
        ELSE Done(h, target.hostCalls
                     \o <<ItemCall("profiles", args.profile_index, count)>>)

AddBody(h) == [h EXCEPT !.bodies = Append(@, NewName(Range(h.bodies)))]

ExtrudeProfileHandler_execute(gen, args, h, hostFails) ==
    LET profile == GetProfile(gen, args, h)
        asked   == profile.hostCalls \o <<MutatingCall("extrudeFeatures.add")>>
    IN  IF profile.exc.cls # None THEN profile
        ELSE IF hostFails # NoFailure THEN Failed(HostException, h, asked)
        ELSE Done(AddBody(h), asked)

RevolveProfileHandler_validate(gen, args, h) ==
    ExtrudeProfileHandler_validate(gen, args, h)

\* a revolve whose refused add leaves a body behind
RevolveProfileHandler_execute_partial(gen, args, h, hostFails) ==
    LET profile == GetProfile(gen, args, h)
        asked   == profile.hostCalls \o <<MutatingCall("revolveFeatures.add")>>
    IN  IF profile.exc.cls # None THEN profile
        ELSE IF hostFails = TangentError
        THEN Failed(ValidationError(gen, "Profile cannot be tangent to the axis", None),
                    AddBody(h), asked)
        ELSE IF hostFails # NoFailure
        THEN Failed(FusionAPIError(gen, "Failed to revolve profile", None), h, asked)
        ELSE Done(AddBody(h), asked)

\* revolveFeatures.add raising a "tangent ... axis" error is reported as a
\* ValidationError, any other error as a FusionAPIError; an add that raises
\* adds nothing
RevolveProfileHandler_execute(gen, args, h, hostFails) ==
    LET profile == GetProfile(gen, args, h)
        asked   == profile.hostCalls \o <<MutatingCall("revolveFeatures.add")>>
    IN  IF profile.exc.cls # None THEN profile
        ELSE IF hostFails = TangentError
        THEN Failed(ValidationError(gen, "Profile cannot be tangent to the axis", None),
                    h, asked)
        ELSE IF hostFails # NoFailure
        THEN Failed(FusionAPIError(gen, "Failed to revolve profile", None), h, asked)
        ELSE Done(AddBody(h), asked)

CombineBodiesHandler_validate(gen, args, h) ==
    LET req == validate_required_fields(gen, <<args.target, args.tool>>)
    IN  IF req.exc.cls # None THEN req ELSE Returned(args)

RemoveAt(s, i) == [j \in 1..(Len(s) - 1) |-> IF j < i THEN s[j] ELSE s[j + 1]]

\* isKeepToolBodies = False: the tool body is consumed; the host refuses to
\* combine a body with itself
CombineBodiesHandler_execute(gen, args, h, hostFails) ==
    LET target == resolve_body_ref(gen, h, [component |-> RootName, body |-> args.target])
        tool   == resolve_body_ref(gen, h, [component |-> RootName, body |-> args.tool])
        found  == target.hostCalls \o tool.hostCalls
        asked  == found \o <<MutatingCall("combineFeatures.add")>>
    IN  IF target.exc.cls # None THEN Failed(target.exc, h, target.hostCalls)
        ELSE IF tool.exc.cls # None THEN Failed(tool.exc, h, found)
        ELSE IF hostFails # NoFailure \/ target.ret = tool.ret
        THEN Failed(HostException, h, asked)
        ELSE Done([h EXCEPT !.bodies = RemoveAt(@, tool.ret)], asked)

\* the actions whose handlers are modelled against the design; the handlers
\* of the other actions are held abstractly
DesignActions ==
    {"create_parameter", "create_sketch", "sketch_draw_rectangle",
     "create_sketch_from_face", "set_is_construction", "extrude_profile",
     "revolve_profile", "combine_bodies"}

\* handler.validate(args).  Abstract arguments: kind "valid", "invalid" (the
\* validator rejects them) or "null" (JSON null: the validator's membership
\* test raises TypeError)
validate(gen, action, args, h) ==
    IF args.kind = "invalid"
    THEN Raised(ValidationError(gen, "Missing required field", None))
    ELSE IF args.kind = "null"
    THEN Raised(PyException("argument of type 'NoneType' is not iterable"))
    ELSE IF args.kind = "valid" THEN Returned([kind |-> "normalized"])
    ELSE CASE action = "create_parameter" -> CreateParameterHandler_validate(gen, args, h)
           [] action = "create_sketch" -> CreateSketchHandler_validate(gen, args, h)
           [] action = "sketch_draw_rectangle" ->
                  SketchDrawRectangleHandler_validate(gen, args, h)
           [] action = "create_sketch_from_face" ->
                  CreateSketchFromFaceHandler_validate(gen, args, h)
           [] action = "set_is_construction" ->
                  SetIsConstructionHandler_validate(gen, args, h)
           [] action = "extrude_profile" -> ExtrudeProfileHandler_validate(gen, args, h)
           [] action = "revolve_profile" -> RevolveProfileHandler_validate(gen, args, h)
           [] action = "combine_bodies" -> CombineBodiesHandler_validate(gen, args, h)

\* handler.execute(validated_args)
execute(gen, action, args, h, hostFails) ==
    IF args.kind = "normalized"
    THEN IF hostFails # NoFailure THEN Failed(HostException, h, <<>>)
         ELSE Done(h, <<>>)
    ELSE CASE action = "create_parameter" ->
                  CreateParameterHandler_execute(gen, args, h, hostFails)
           [] action = "create_sketch" ->
                  CreateSketchHandler_execute(gen, args, h, hostFails)
           [] action = "sketch_draw_rectangle" ->
                  SketchDrawRectangleHandler_execute(gen, args, h, hostFails)
           [] action = "create_sketch_from_face" ->
                  CreateSketchFromFaceHandler_execute(gen, args, h, hostFails)
           [] action = "set_is_construction" ->
                  SetIsConstructionHandler_execute(gen, args, h, hostFails)
           [] action = "extrude_profile" ->
                  ExtrudeProfileHandler_execute(gen, args, h, hostFails)
           [] action = "revolve_profile" ->
                  RevolveProfileHandler_execute(gen, args, h, hostFails)
           [] action = "combine_bodies" ->
                  CombineBodiesHandler_execute(gen, args, h, hostFails)

-----------------------------------------------------------------------------
(* core/router.py *)

\* the actions HandlerRegistry._initialize_handlers registers, minus one
RegisteredActions_missing ==
    {"get_design_info", "create_parameter", "update_parameter", "create_sketch",
     "extrude_profile",
     "list_open_documents", "get_open_document_info", "open_document",
     "focus_document", "close_document", "backup_document", "get_document_type",
     "get_document_structure",
     "sketch_draw_line", "sketch_draw_circle", "sketch_draw_rectangle",
     "create_sketch_from_face", "project_edges", "set_is_construction",
     "revolve_profile", "combine_bodies",
     "add_constraints", "add_dimension_distance",
     "measure_geometry",
     "trigger_ui_command"}

\* the actions HandlerRegistry._initialize_handlers registers
RegisteredActions ==
    {"get_design_info", "create_parameter", "update_parameter", "create_sketch",
     "extrude_profile",
     "list_open_documents", "get_open_document_info", "open_document",
     "focus_document", "close_document", "backup_document", "get_document_type",
     "get_document_structure",
     "sketch_draw_line", "sketch_draw_circle", "sketch_draw_rectangle",
     "create_sketch_from_face", "project_edges", "set_is_construction",
     "revolve_profile", "combine_bodies",
     "rotate_body",
     "add_constraints", "add_dimension_distance",
     "measure_geometry",
     "trigger_ui_command"}

\* HandlerRegistry(context): its handlers and the generation of the modules
\* (error classes included) they were built from
HandlerRegistry(gen) == [gen |-> gen, handlers |-> RegisteredActions]

\* a handler method call: which handler, which method, on which thread, with
\* what argument, what it returned, and the class of what it raised
Call(handler, method, thread, arg, ret, exc) ==
    [handler |-> handler, method |-> method, thread |-> thread, arg |-> arg,
     ret |-> ret, exc |-> exc]

\* a handle that gives execute the arguments as the client sent them
handle_unvalidated(gen, action, args, h, hostFails, thread) ==
    LET v == validate(gen, action, args, h)
        x == execute(gen, action,
                     IF args.kind = "valid" THEN v.ret ELSE args, h, hostFails)
    IN  [trace |-> <<Call(action, "validate", thread, args, v.ret, v.exc.cls),
                     Call(action, "execute", thread, args, None, x.exc.cls)>>,
         exc |-> x.exc, host |-> x.host, hostCalls |-> x.hostCalls]

\* the end of handle once execute has ended with x, validate having
\* returned v
AfterExecute(gen, action, args, h, thread, v, x) ==
    LET vcall == Call(action, "validate", thread, args, v.ret, v.exc.cls)
        xcall == Call(action, "execute", thread, v.ret, None, x.exc.cls)
        Wrap(e) == FusionAPIError(gen, "Operation failed: " \o Str(e), None)
    IN  [trace |-> <<vcall, xcall>>,
         exc |-> IF x.exc.cls = None \/ x.exc.cls = "ValidationError" THEN x.exc
                 ELSE Wrap(x.exc),
         host |-> x.host, hostCalls |-> x.hostCalls]

\* the rest of handle once validate has ended with v
AfterValidate(gen, action, args, h, hostFails, thread, v) ==
    LET vcall == Call(action, "validate", thread, args, v.ret, v.exc.cls)
        Wrap(e) == FusionAPIError(gen, "Operation failed: " \o Str(e), None)
    IN  IF v.exc.cls = None
        THEN AfterExecute(gen, action, args, h, thread, v,
                          execute(gen, action, v.ret, h, hostFails))
        ELSE [trace |-> <<vcall>>,
              exc |-> IF v.exc.cls = "ValidationError" THEN v.exc ELSE Wrap(v.exc),
              host |-> h, hostCalls |-> <<>>]

\* BaseHandler.handle: validate, then execute with what validate returned;
\* a ValidationError passes, anything else becomes a FusionAPIError
handle(gen, action, args, h, hostFails, thread) ==
    AfterValidate(gen, action, args, h, hostFails, thread,
                  validate(gen, action, args, h))

\* HandlerRegistry.handle_action: get_handler, then handler.handle
handle_action(reg, action, args, h, hostFails, thread) ==
    IF action = UnhashableAction
    THEN [trace |-> <<>>, exc |-> PyException("unhashable type: 'list'"),
          host |-> h, hostCalls |-> <<>>]
    ELSE IF action \notin reg.handlers
    THEN [trace |-> <<>>, exc |-> ActionNotSupportedError(reg.gen, action),
          host |-> h, hostCalls |-> <<>>]
    ELSE handle(reg.gen, action, args, h, hostFails, thread)

-----------------------------------------------------------------------------
(* FusionMCPBridge.py: configuration *)

\* config.py as shipped, with or without an auth token, and the ways the dev
\* reload switch can be set.  env is os.environ.get("BRIDGE_DEV_RELOAD").
Configs ==
    [authToken : {None, "secret"},
     env : {None},
     DEV_RELOAD_ENABLED : {None},
     BRIDGE_DEV_RELOAD : {"1"}]
    \cup
    [authToken : {None, "secret"},
     env : {None, "1"},
     DEV_RELOAD_ENABLED : {"False"},
     BRIDGE_DEV_RELOAD : {"1"}]
    \cup
    [authToken : {None},
     env : {None},
     DEV_RELOAD_ENABLED : {None},
     BRIDGE_DEV_RELOAD : {None, "0"}]

\* a switch that reads the legacy BRIDGE_DEV_RELOAD flag before
\* DEV_RELOAD_ENABLED
_is_dev_reload_enabled_legacy_first(cfg) ==
    IF Truthy(cfg.env) THEN TRUE
    ELSE IF cfg.BRIDGE_DEV_RELOAD # None THEN cfg.BRIDGE_DEV_RELOAD # "0"
    ELSE IF cfg.DEV_RELOAD_ENABLED # None THEN cfg.DEV_RELOAD_ENABLED = "True"
    ELSE FALSE

_is_dev_reload_enabled(cfg) ==
    IF Truthy(cfg.env) THEN TRUE
    ELSE IF cfg.DEV_RELOAD_ENABLED # None THEN cfg.DEV_RELOAD_ENABLED = "True"
    ELSE IF cfg.BRIDGE_DEV_RELOAD # None THEN cfg.BRIDGE_DEV_RELOAD # "0"
    ELSE FALSE

_cfg_auth_token(cfg) == cfg.authToken

-----------------------------------------------------------------------------
(* FusionMCPBridge.py: module reload *)

\* what an import finds on disk: sound sources, a handler module that fails to
\* import (core.errors imports before it), or a core/errors.py that fails
DiskStates == {"ok", "badHandlers", "badErrors"}

\* import_module('core.errors'): the module in sys.modules, else a fresh import
ImportErrors(sm, ng, dsk) ==
    IF sm # 0 THEN [ok |-> TRUE, gen |-> sm, sysmod |-> sm, nextGen |-> ng]
    ELSE IF dsk = "badErrors"
    THEN [ok |-> FALSE, gen |-> 0, sysmod |-> 0, nextGen |-> ng]
    ELSE [ok |-> TRUE, gen |-> ng, sysmod |-> ng, nextGen |-> ng + 1]

\* _purge_bridge_modules, then fresh imports of core.router (which imports
\* core.errors first) and of the handlers, then HandlerRegistry(context)
_reload_and_rebuild_registry(ng, dsk) ==
    IF dsk = "ok"
    THEN [ok |-> TRUE, registry |-> HandlerRegistry(ng), sysmod |-> ng,
          nextGen |-> ng + 1]
    ELSE IF dsk = "badHandlers"
    THEN [ok |-> FALSE, registry |-> HandlerRegistry(0), sysmod |-> ng,
          nextGen |-> ng + 1]
    ELSE [ok |-> FALSE, registry |-> HandlerRegistry(0), sysmod |-> 0,
          nextGen |-> ng]

-----------------------------------------------------------------------------
(* FusionMCPBridge.py: BridgeRequestHandler *)

\* the thread do_GET and do_POST run on: _server_thread, whose target is
\* _server.serve_forever
HandlerThread == "server_thread"

\* the host application's main thread
MainThread == "main_thread"

\* a request path urlparse rejects with ValueError (an unclosed IPv6 bracket)
MalformedPath == "//["

_send_json_response(status_code, data) == [status |-> status_code, body |-> data]

_send_error_flat(status_code, code, message, details, request_id) ==
    _send_json_response(200,
        [status |-> "error", code |-> code, message |-> message])

_send_error(status_code, code, message, details, request_id) ==
    LET err  == IF details # {}
                THEN [code |-> code, message |-> message, details |-> details]
                ELSE [code |-> code, message |-> message]
        body == [status |-> "error", error |-> err]
    IN  _send_json_response(200,
            IF Truthy(request_id) THEN body @@ [id |-> request_id] ELSE body)

_check_auth_always(auth_token, token) == token = auth_token

_check_auth(auth_token, token) ==
    IF auth_token = None THEN TRUE ELSE token = auth_token

AuthError ==
    _send_error(200, "E_UNAUTHORIZED", "Invalid or missing X-Bridge-Token header",
                {}, None)

\* get_fusion_state: every host exception is caught inside
get_fusion_state(hostFails) ==
    IF hostFails # NoFailure THEN [running |-> FALSE, units |-> "unknown"]
    ELSE [running |-> TRUE, units |-> "mm"]

\* what serving one request produced: the response, whether _check_auth
\* rejected it, the calls made into handlers and the host, what /dev/reload
\* did, the module state left behind, the design left behind and what the
\* handler asked of the host
\* how registry.handle_action ended in a request: not called, returned, or
\* the class of the exception it raised
NotCalled == "not_called"

HasReturned == "returned"

Out(resp, authRejected, trace, reload, reg, sm, ng, h, hostCalls) ==
    [resp |-> resp, authRejected |-> authRejected, trace |-> trace,
     reload |-> reload, registry |-> reg, sysmod |-> sm, nextGen |-> ng,
     host |-> h, hostCalls |-> hostCalls, outcome |-> NotCalled]

do_GET(req, cfg, reg, sm, ng, h, hostFails) ==
    IF ~_check_auth(_cfg_auth_token(cfg), req.token)
    THEN Out(AuthError, TRUE, <<>>, "none", reg, sm, ng, h, <<>>)
    ELSE IF req.path = MalformedPath
    THEN Out(_send_json_response(500,
                 [status |-> "error",
                  error |-> [code |-> "E_INTERNAL", message |-> "Invalid IPv6 URL"]]),
             FALSE, <<>>, "none", reg, sm, ng, h, <<>>)
    ELSE IF req.path = "/health"
    THEN Out(_send_json_response(200,
                 [status |-> "ok", version |-> "0.1.0",
                  fusion |-> get_fusion_state(hostFails)]),
             FALSE, <<Call("get_fusion_state", "read", HandlerThread, None, None, None)>>,
             "none", reg, sm, ng, h, <<>>)
    ELSE Out(_send_json_response(404,
                 [status |-> "error",
                  error |-> [code |-> "E_NOT_FOUND", message |-> "Endpoint not found"]]),
             FALSE, <<>>, "none", reg, sm, ng, h, <<>>)

\* a /dev/reload that installs whatever the rebuild left, failed or not
DevReload_install_always(cfg, reg, sm, ng, dsk, h) ==
    IF ~_is_dev_reload_enabled(cfg)
    THEN Out(_send_error(200, "E_UNAUTHORIZED", "Dev reload disabled", {}, None),
             FALSE, <<>>, "none", reg, sm, ng, h, <<>>)
    ELSE LET r == _reload_and_rebuild_registry(ng, dsk)
         IN  IF r.ok
             THEN Out(_send_json_response(200, [status |-> "ok", reloaded |-> TRUE]),
                      FALSE, <<>>, "ok", r.registry, r.sysmod, r.nextGen, h, <<>>)
             ELSE Out(_send_error(200, "E_RUNTIME", "import failed", {}, None),
                      FALSE, <<>>, "failed", r.registry, r.sysmod, r.nextGen, h, <<>>)

\* POST /dev/reload
DevReload(cfg, reg, sm, ng, dsk, h) ==
    IF ~_is_dev_reload_enabled(cfg)
    THEN Out(_send_error(200, "E_UNAUTHORIZED", "Dev reload disabled", {}, None),
             FALSE, <<>>, "none", reg, sm, ng, h, <<>>)
    ELSE LET r == _reload_and_rebuild_registry(ng, dsk)
         IN  IF r.ok
             THEN Out(_send_json_response(200, [status |-> "ok", reloaded |-> TRUE]),
                      FALSE, <<>>, "ok", r.registry, r.sysmod, r.nextGen, h, <<>>)
             ELSE Out(_send_error(200, "E_RUNTIME", "import failed", {}, None),
                      FALSE, <<>>, "failed", reg, r.sysmod, r.nextGen, h, <<>>)

PostNotFound_404 ==
    _send_json_response(404,
        [status |-> "error",
         error |-> [code |-> "E_NOT_FOUND", message |-> "Endpoint not found"]])

\* POST to a path that is neither /dev/reload nor /v1/execute
PostNotFound == _send_error(200, "E_NOT_FOUND", "Endpoint not found", {}, None)

\* a successful action's response body
OkBody(result, request_id) ==
    LET resp == [status |-> "ok", result |-> result]
    IN  IF Truthy(request_id) THEN resp @@ [id |-> request_id] ELSE resp

\* the except clauses of do_POST around registry.handle_action, which ended
\* with r; gen is the generation of the error classes do_POST imported
Translate(body, reg, sm, ng, gen, r) ==
    LET e == r.exc
        Caught(cls) == e.cls = cls /\ e.gen = gen
        resp == IF e.cls = None
                THEN _send_json_response(200, OkBody([action |-> body.action], body.id))
                ELSE IF Caught("ActionNotSupportedError")
                THEN _send_error(200, e.code, e.message, {}, body.id)
                ELSE IF Caught("ValidationError") \/ Caught("FusionAPIError")
                THEN _send_error(200, e.code, e.message, e.details, body.id)
                ELSE _send_error(200, "E_RUNTIME", Str(e), {}, body.id)
    IN  [Out(resp, FALSE, r.trace, "none", reg, sm, ng, r.host, r.hostCalls)
            EXCEPT !.outcome = IF e.cls = None THEN HasReturned ELSE e.cls]

\* the dispatch of do_POST once the error classes are imported (imp)
Dispatch(body, reg, h, hostFails, imp) ==
    IF ~imp.ok
    THEN Out(_send_error(200, "E_RUNTIME", "import failed", {}, body.id),
             FALSE, <<>>, "none", reg, imp.sysmod, imp.nextGen, h, <<>>)
    ELSE Translate(body, reg, imp.sysmod, imp.nextGen, imp.gen,
                   handle_action(reg, body.action, body.args, h, hostFails,
                                 HandlerThread))

\* POST /v1/execute once the body parsed to an object with a truthy action:
\* import the error classes, dispatch, and translate the outcome
Execute(body, reg, sm, ng, dsk, h, hostFails) ==
    Dispatch(body, reg, h, hostFails, ImportErrors(sm, ng, dsk))

do_POST(req, cfg, reg, sm, ng, dsk, h, hostFails) ==
    LET body == req.body
        Plain(resp) == Out(resp, FALSE, <<>>, "none", reg, sm, ng, h, <<>>)
    IN  IF ~_check_auth(_cfg_auth_token(cfg), req.token)
        THEN Out(AuthError, TRUE, <<>>, "none", reg, sm, ng, h, <<>>)
        ELSE IF req.path = MalformedPath
        THEN Plain(_send_error(200, "E_RUNTIME", "Invalid IPv6 URL", {}, None))
        ELSE IF req.path = "/dev/reload"
        THEN DevReload(cfg, reg, sm, ng, dsk, h)
        ELSE IF req.path # "/v1/execute"
        THEN Plain(PostNotFound)
        ELSE IF body.kind = "badlen"
        THEN Plain(_send_error(200, "E_RUNTIME", "invalid literal for int()", {}, None))
        ELSE IF body.kind = "missing"
        THEN Plain(_send_error(200, "E_BAD_ARGS", "Missing request body", {}, None))
        ELSE IF body.kind = "invalid_json"
        THEN Plain(_send_error(200, "E_BAD_JSON", "Invalid JSON", {}, None))
        ELSE IF body.kind = "non_object"
        THEN Plain(_send_error(200, "E_RUNTIME", "'list' object has no attribute 'get'",
                               {}, None))
        ELSE IF ~Truthy(body.action)
        THEN Plain(_send_error(200, "E_BAD_ARGS", "Missing 'action' field", {}, body.id))
        ELSE Execute(body, reg, sm, ng, dsk, h, hostFails)

-----------------------------------------------------------------------------
(* fusion_mcp_server.py *)

\* the tool names list_tools returns
ListToolNames ==
    {"get_design_info", "create_parameter", "create_sketch", "sketch_draw_line",
     "sketch_draw_circle", "sketch_draw_rectangle", "extrude_profile",
     "revolve_profile", "combine_bodies", "rotate_body",
     "list_open_documents", "get_open_document_info", "open_document",
     "focus_document", "close_document", "backup_document", "get_document_type",
     "get_document_structure", "measure_geometry", "update_parameter",
     "add_constraints", "add_dimension_distance", "create_sketch_from_face",
     "project_edges", "set_is_construction", "trigger_ui_command"}

\* _TOOL_HANDLERS: tool name -> the action its _handle_<tool> passes to
\* bridge.execute_action
_TOOL_HANDLERS ==
    "get_design_info" :> "get_design_info" @@
    "create_parameter" :> "create_parameter" @@
    "create_sketch" :> "create_sketch" @@
    "sketch_draw_line" :> "sketch_draw_line" @@
    "sketch_draw_circle" :> "sketch_draw_circle" @@
    "sketch_draw_rectangle" :> "sketch_draw_rectangle" @@
    "extrude_profile" :> "extrude_profile" @@
    "list_open_documents" :> "list_open_documents" @@
    "get_open_document_info" :> "get_open_document_info" @@
    "open_document" :> "open_document" @@
    "focus_document" :> "focus_document" @@
    "close_document" :> "close_document" @@
    "backup_document" :> "backup_document" @@
    "get_document_type" :> "get_document_type" @@
    "get_document_structure" :> "get_document_structure" @@
    "measure_geometry" :> "measure_geometry" @@
    "update_parameter" :> "update_parameter" @@
    "add_constraints" :> "add_constraints" @@
    "add_dimension_distance" :> "add_dimension_distance" @@
    "revolve_profile" :> "revolve_profile" @@
    "combine_bodies" :> "combine_bodies" @@
    "rotate_body" :> "rotate_body" @@
    "create_sketch_from_face" :> "create_sketch_from_face" @@
    "project_edges" :> "project_edges" @@
    "set_is_construction" :> "set_is_construction" @@
    "trigger_ui_command" :> "trigger_ui_command"

\* a tool name is the sequence of its "__"-separated parts; call_tool keeps the
\* last part of a namespaced name
Normalize(name) == IF Len(name) > 1 THEN name[Len(name)] ELSE name[1]

\* _handle_revolve_profile forwards the raw arguments; every other handler
\* validates them against its pydantic model first
ToolValidates(tool) == tool # "revolve_profile"

create_json_response(data) == [success |-> TRUE, data |-> data, format |-> "json"]

create_error_response(error_message, error_code) ==
    IF Truthy(error_code)
    THEN [success |-> FALSE, error |-> error_message, format |-> "json",
          error_code |-> error_code]
    ELSE [success |-> FALSE, error |-> error_message, format |-> "json"]

\* call_tool's "except BridgeError" clause
BridgeErrorResult(code, message) ==
    create_error_response("Bridge error (" \o code \o "): " \o message, "BRIDGE_ERROR")

NewCall ==
    [state |-> "new", tool |-> None, action |-> None, args |-> None,
     sent |-> 0, execs |-> 0, bridgeCode |-> None,
     result |-> [format |-> "pending"]]

Finish(c, result) == [c EXCEPT !.state = "done", !.result = result]

\* the arguments as the bridge's validator sees them
BridgeArgs(args) == IF args = "valid" THEN "valid" ELSE "invalid"

\* call_tool up to the await of the HTTP response.  args: "valid",
\* "schema_invalid" (the pydantic model rejects it), "bridge_invalid" (the
\* model accepts it, the bridge's validator does not).  connects: the POST
\* reaches the bridge.
call_tool(c, name, args, connects) ==
    LET tool_name == Normalize(name)
        called    == [c EXCEPT !.tool = tool_name]
    IN  IF tool_name \notin DOMAIN _TOOL_HANDLERS
        THEN Finish(called,
                 create_error_response("Unknown tool: " \o tool_name, "UNKNOWN_TOOL"))
        ELSE IF args = "schema_invalid" /\ ToolValidates(tool_name)
        THEN Finish(called,
                 create_error_response("Validation error", "VALIDATION_ERROR"))
        ELSE IF ~connects
        THEN Finish([called EXCEPT !.action = _TOOL_HANDLERS[tool_name]],
                 BridgeErrorResult("E_CONNECTION", "Cannot connect to Fusion bridge"))
        ELSE [called EXCEPT !.state = "waiting",
                            !.action = _TOOL_HANDLERS[tool_name],
                            !.args = BridgeArgs(args),
                            !.sent = @ + 1]

\* BridgeClient.execute_action: the request of a call
McpRequest(c) ==
    [method |-> "POST", path |-> "/v1/execute", token |-> None,
     body |-> [kind |-> "object", action |-> c.action, args |-> [kind |-> c.args],
               id |-> "a1b2c3d4"]]

\* execute_action and call_tool on the bridge's response
OnResponse(c, resp) ==
    IF resp.status < 200 \/ resp.status > 299
    THEN Finish(c, BridgeErrorResult("E_HTTP", "Bridge returned an error status"))
    ELSE IF resp.body.status = "error"
    THEN Finish([c EXCEPT !.bridgeCode = resp.body.error.code],
             BridgeErrorResult(resp.body.error.code, resp.body.error.message))
    ELSE Finish(c, create_json_response(resp.body.result))

OnTimeout_retry(c) == [c EXCEPT !.sent = @ + 1]

\* execute_action on httpx.TimeoutException
OnTimeout(c) == Finish(c, BridgeErrorResult("E_TIMEOUT", "Action timed out"))

-----------------------------------------------------------------------------
(* FusionMCPBridge.py: run, start_server, stop *)

\* the module-global _registry before start_server and after stop: None
NoRegistry == [gen |-> 0, handlers |-> {}]

\* what HTTPServer((host, port), handler_class) does: it binds, or bind
\* raises OSError because the port is in use, is denied, or for another reason
BindOutcomes == {"ok", "in_use", "denied", "unreachable"}

BindError(bind) ==
    [cls |-> "OSError",
     message |-> CASE bind = "in_use" -> "[Errno 98] Address already in use"
                   [] bind = "denied" -> "[Errno 13] Permission denied"
                   [] OTHER -> "[Errno 99] Cannot assign requested address"]

NoError == [cls |-> None, message |-> ""]

\* start_server: build the registry, bind, start the thread; whatever is
\* raised on the way is raised again as Exception("Failed to start server: ...")
start_server(ng, dsk, bind) ==
    LET r == _reload_and_rebuild_registry(ng, dsk)
        Wrapped(message) ==
            [cls |-> "Exception", message |-> "Failed to start server: " \o message]
    IN  IF ~r.ok
        THEN [exc |-> Wrapped("import failed"), assigned |-> FALSE,
              registry |-> NoRegistry, sysmod |-> r.sysmod, nextGen |-> r.nextGen]
        ELSE [exc |-> IF bind = "ok" THEN NoError
                      ELSE Wrapped(BindError(bind).message),
              assigned |-> TRUE, registry |-> r.registry,
              sysmod |-> r.sysmod, nextGen |-> r.nextGen]

\* "address already in use" in str(e).lower() or "errno 98" in ...
MentionsInUse(message) ==
    message \in {"[Errno 98] Address already in use",
                 "Failed to start server: [Errno 98] Address already in use"}

\* "permission denied" in str(e).lower() or "errno 13" in ...
MentionsDenied(message) ==
    message \in {"[Errno 13] Permission denied",
                 "Failed to start server: [Errno 13] Permission denied"}

\* run(context): start_server, and on failure one message box, by the class
\* of the exception first and by its text second; the exception is re-raised
run(ng, dsk, bind) ==
    LET s == start_server(ng, dsk, bind)
        e == s.exc
    IN  [started |-> e.cls = None,
         raised |-> e,
         box |-> IF e.cls = None THEN None
                 ELSE IF e.cls = "OSError"
                 THEN IF MentionsInUse(e.message) THEN "Port is already in use"
                      ELSE IF MentionsDenied(e.message) THEN "Permission denied for port"
                      ELSE "Network error during startup"
                 ELSE "Failed to start",
         assigned |-> s.assigned, registry |-> s.registry,
         sysmod |-> s.sysmod, nextGen |-> s.nextGen]

\* serve_forever leaves its loop at once whenever shutdown was requested
ServeLoopExits_abort(h, shutdownRequest) == shutdownRequest

\* serve_forever tests the shutdown flag between requests only: it returns
\* once shutdown was requested and the request being handled has ended
ServeLoopExits(h, shutdownRequest) == shutdownRequest /\ Len(h) = 0

\* the add-in before run(): nothing started
NotStarted ==
    [pc |-> "unloaded", server |-> None, serverThread |-> None,
     serving |-> FALSE, shutdownRequest |-> FALSE,
     bind |-> None, box |-> None, raised |-> NoError,
     inFlightAtStop |-> FALSE, purgedInFlight |-> FALSE]

\* the add-in after a run() that succeeded: _server listening and
\* _server_thread in serve_forever
Running ==
    [NotStarted EXCEPT !.pc = "running", !.server = "HTTPServer",
                       !.serverThread = "Thread", !.serving = TRUE, !.bind = "ok"]

-----------------------------------------------------------------------------
(* Requests a client other than the MCP server may send *)

Tokens == {None, "secret", "wrong"}

NoBody == [kind |-> "missing", action |-> None, args |-> [kind |-> None], id |-> None]

\* the id of a request: absent, empty, or a string
RequestIds == {None, "", "r1"}

\* bodies of POST /v1/execute: no body, a Content-Length that is no number,
\* invalid JSON, JSON that is no object, and objects
ExecuteBodies ==
    [kind : {"missing", "badlen", "invalid_json", "non_object"},
     action : {None}, args : {[kind |-> None]}, id : {None}]
    \cup
    [kind : {"object"}, action : {"create_sketch"},
     args : {[kind |-> "valid"], [kind |-> "invalid"], [kind |-> "null"]},
     id : RequestIds]
    \cup
    [kind : {"object"}, action : {None, "", "no_such_action", UnhashableAction},
     args : {[kind |-> "valid"]}, id : RequestIds]

RawRequests ==
    [method : {"GET"}, path : {"/health", "/other", MalformedPath},
     token : Tokens, body : {NoBody}]
    \cup
    [method : {"POST"}, path : {"/dev/reload", "/other", MalformedPath},
     token : Tokens, body : {NoBody}]
    \cup
    [method : {"POST"}, path : {"/v1/execute"}, token : Tokens, body : ExecuteBodies]

\* the values a request may give for a name: absent, empty, padded, plain
NameInputs == {None, "", Padded(NameOf(1))} \cup (Names \ {NameOf(1)})

\* the values a request may give for an index: -1, -0.5, 0, 0.5, 6, a
\* string, Infinity
IndexInputs ==
    {Num(0 - 10), Num(0 - 5), Num(0), Num(5), Num(60), JsonString, JsonInfinity}

\* the arguments of the actions on the design
DesignArgs ==
    [action : {"create_parameter"}, kind : {"object"}, name : NameInputs]
    \cup
    [action : {"create_sketch"}, kind : {"object"}, plane : {"xy"}, name : NameInputs]
    \cup
    [action : {"create_sketch"}, kind : {"object"}, plane : {"AB", None},
     name : {NameOf(1)}]
    \cup
    [action : {"sketch_draw_rectangle"}, kind : {"object"},
     sketch : Names \cup {None}]
    \cup
    [action : {"create_sketch_from_face"}, kind : {"object"},
     faceRef : [component : {RootName}, body : {NameOf(1)}, index : IndexInputs],
     name : {Padded(NameOf(1))} \cup (Names \ {NameOf(1)})]
    \cup
    [action : {"set_is_construction"}, kind : {"object"}, sketch : {NameOf(1)},
     index : IndexInputs]
    \cup
    [action : {"extrude_profile"}, kind : {"object"}, sketch : {NameOf(1)},
     profile_index : IndexInputs]
    \cup
    [action : {"revolve_profile"}, kind : {"object"}, sketch : {NameOf(1)},
     profile_index : {Num(0), Num(5)}]
    \cup
    [action : {"combine_bodies"}, kind : {"object"}, target : Names, tool : Names]

\* the requests of a client that works on the design, and its /dev/reload
DesignRequests ==
    {[method |-> "POST", path |-> "/v1/execute", token |-> None,
      body |-> [kind |-> "object", action |-> a.action, args |-> a, id |-> None]] :
        a \in DesignArgs}
    \cup
    {[method |-> "POST", path |-> "/dev/reload", token |-> None, body |-> NoBody]}

\* the connection of the client that works on the design
DesignClient == 0 - 1

\* connection 0 is any other client, connection k > 0 carries tool call k
RequestsOf(client) ==
    IF client = 0 THEN RawRequests
    ELSE IF client = DesignClient THEN DesignRequests
    ELSE {McpRequest(calls[client])}

\* how the host may behave while a request of the client is served
HostBehaviours(client) ==
    IF client = DesignClient THEN {NoFailure, HostError, TangentError}
    ELSE {NoFailure, HostError}

-----------------------------------------------------------------------------
(* inworld-tts/hooks: the launchers run-hook.py and tts-notify.py.  A path  *)
(* is a sequence of characters.                                              *)

MaxPathLen == 4

Backslash == "\\"

\* the characters paths are made of: an upper-case and a lower-case letter,
\* the colon and the two separators
Alphabet == {"C", "d", ":", Backslash, "/"}

\* str.lower on one character
lower(c) == IF c = "C" THEN "c" ELSE c

\* p.replace("\\", "/")
replace(p) == [i \in 1..Len(p) |-> IF p[i] = Backslash THEN "/" ELSE p[i]]

\* the pattern ^([A-Za-z]): matches at the start of p
MatchesDrive(p) == Len(p) >= 2 /\ p[1] \in {"C", "c", "d"} /\ p[2] = ":"

\* tts-notify.py: to_posix
to_posix(p) ==
    LET q == replace(p)
    IN  IF MatchesDrive(q)
        THEN <<"/", lower(q[1])>> \o SubSeq(q, 3, Len(q))
        ELSE q

\* a conversion that keeps the drive letter's case
convert_script_keep_case(script) ==
    LET q == replace(script)
    IN  IF MatchesDrive(q)
        THEN <<"/", q[1]>> \o SubSeq(q, 3, Len(q))
        ELSE q

\* run-hook.py, lines 15-16: replace, then re.sub of the leading drive by
\* "/" and the lower-cased letter; the rest of the string is kept
convert_script(script) ==
    LET q     == replace(script)
        match == IF MatchesDrive(q) THEN SubSeq(q, 1, 2) ELSE <<>>
        repl  == IF match = <<>> THEN <<>> ELSE <<"/", lower(match[1])>>
    IN  repl \o SubSeq(q, Len(match) + 1, Len(q))

\* no exit code, or no return code, yet
NoCode == 0 - 1

\* the exit statuses of a bash that ran the script to its end
ReturnCodes == {0, 1, 127}

\* run-hook.py up to subprocess.run: [exit, ran], ran being the command line
\* started, empty when nothing is run
run_hook(sys_argv) ==
    IF Len(sys_argv) < 2
    THEN [exit |-> 1, ran |-> <<>>]
    ELSE [exit |-> NoCode,
          ran |-> <<"bash", convert_script(sys_argv[2])>>
                  \o SubSeq(sys_argv, 3, Len(sys_argv))]

\* no launcher was started
NotLaunched ==
    [pc |-> "none", sys_argv |-> <<>>, ran |-> <<>>, returncode |-> NoCode,
     exit |-> NoCode]

Paths == UNION {[1..n -> Alphabet] : n \in 0..MaxPathLen}

\* sys.argv[2:]
ExtraArgs == {<<>>, <<"-v">>, <<"a b", "-v">>}

\* sys.argv of a run-hook.py process
Argvs ==
    {<<"run-hook.py">>}
    \cup {<<"run-hook.py", script>> \o extra : script \in Paths, extra \in ExtraArgs}

-----------------------------------------------------------------------------
(* The state machine *)

NoLast ==
    [client |-> 0,
     req |-> [method |-> "NONE", path |-> None, token |-> None, body |-> NoBody],
     resp |-> [status |-> 0, body |-> [status |-> None]],
     authRejected |-> FALSE, trace |-> <<>>, reload |-> "none",
     servedBy |-> HandlerRegistry(0), errorsGen |-> 0, hostCalls |-> <<>>,
     outcome |-> NotCalled]

EmptyDesign == [sketches |-> <<>>, bodies |-> <<>>, params |-> <<>>]

\* the state start_server leaves: a registry built from freshly imported
\* modules, bound to the handler class, and the listener thread running
Init ==
    /\ config \in Configs
    /\ disk = "ok"
    /\ sysmod = 1
    /\ nextGen = 2
    /\ registry = HandlerRegistry(1)
    /\ rhcRegistry = HandlerRegistry(1)
    /\ gRegistry = HandlerRegistry(1)
    /\ backlog = <<>>
    /\ handling = <<>>
    /\ last = NoLast
    /\ calls = [k \in 1..NumCalls |-> NewCall]
    /\ host = EmptyDesign
    /\ addin = Running
    /\ context = FusionContext
    /\ hook = NotLaunched

Open == Len(backlog) + Len(handling)

\* a client other than the MCP server connects
Connect ==
    /\ addin.server # None
    /\ Open < MaxConns
    /\ backlog' = Append(backlog, 0)
    /\ UNCHANGED <<hook, context, config, disk, sysmod, nextGen, registry, rhcRegistry, gRegistry,
                   handling, last, calls, host, addin>>

CanAccept_threaded(h) == TRUE

\* HTTPServer.serve_forever handles a request to its end before it accepts
\* the next connection (no ThreadingMixIn)
CanAccept(h) == Len(h) = 0

Accept ==
    /\ addin.serving
    /\ ~addin.shutdownRequest
    /\ backlog # <<>>
    /\ CanAccept(handling)
    /\ handling' = Append(handling, Head(backlog))
    /\ backlog' = Tail(backlog)
    /\ last' = NoLast
    /\ UNCHANGED <<hook, context, config, disk, sysmod, nextGen, registry, rhcRegistry, gRegistry,
                   calls, host, addin>>

Remove(s, i) == [j \in 1..(Len(s) - 1) |-> IF j < i THEN s[j] ELSE s[j + 1]]

Serve(req, hostFails) ==
    IF req.method = "GET"
    THEN do_GET(req, config, rhcRegistry, sysmod, nextGen, host, hostFails)
    ELSE do_POST(req, config, rhcRegistry, sysmod, nextGen, disk, host, hostFails)

\* the handler of an accepted connection runs do_GET or do_POST to its end
Handle(i) ==
    /\ i \in 1..Len(handling)
    /\ \E req \in RequestsOf(handling[i]), hostFails \in HostBehaviours(handling[i]) :
       \E out \in {Serve(req, hostFails)} :
         LET client == handling[i]
         IN  /\ hostFails = TangentError => req.body.action = "revolve_profile"
             /\ out.nextGen <= MaxGen + 1
             /\ WithinBounds(out.host)
             /\ last' = [client |-> client, req |-> req, resp |-> out.resp,
                         authRejected |-> out.authRejected, trace |-> out.trace,
                         reload |-> out.reload,
                         servedBy |-> rhcRegistry, errorsGen |-> out.sysmod,
                         hostCalls |-> out.hostCalls, outcome |-> out.outcome]
             /\ sysmod' = out.sysmod
             /\ nextGen' = out.nextGen
             /\ registry' = out.registry
             /\ rhcRegistry' = out.registry
             /\ gRegistry' = IF out.reload = "ok" THEN out.registry ELSE gRegistry
             /\ host' = out.host
             /\ context' = IF out.reload = "ok" THEN FusionContext
                            ELSE IF out.hostCalls # <<>>
                            THEN FusionContext_root_component(context, host).context
                            ELSE context
             /\ calls' = IF client \notin 1..NumCalls THEN calls
                         ELSE [calls EXCEPT ![client] =
                                 LET c == [@ EXCEPT !.execs =
                                             @ + IF out.trace # <<>> THEN 1 ELSE 0]
                                 IN  IF c.state = "waiting"
                                     THEN OnResponse(c, out.resp) ELSE c]
    /\ handling' = Remove(handling, i)
    /\ UNCHANGED <<hook, config, disk, backlog, addin>>

\* a developer edits the add-in's sources
EditSource(d) ==
    /\ d \in DiskStates \ {disk}
    /\ disk' = d
    /\ UNCHANGED <<hook, context, config, sysmod, nextGen, registry, rhcRegistry, gRegistry,
                   backlog, handling, last, calls, host, addin>>

ToolNameInputs ==
    {<<t>> : t \in ListToolNames}
    \cup {<<"unknown_tool">>, <<"mcp", "fusion360", "get_design_info">>}

McpArgs == {"valid", "schema_invalid", "bridge_invalid"}

\* the agent calls a tool
CallTool(k) ==
    /\ calls[k].state = "new"
    /\ \E name \in ToolNameInputs, args \in McpArgs, connects \in BOOLEAN :
         LET c == call_tool(calls[k], name, args, connects /\ Open < MaxConns)
         IN  /\ calls' = [calls EXCEPT ![k] = c]
             /\ backlog' = IF c.state = "waiting" THEN Append(backlog, k) ELSE backlog
    /\ UNCHANGED <<hook, context, config, disk, sysmod, nextGen, registry, rhcRegistry, gRegistry,
                   handling, last, host, addin>>

\* the HTTP client gives up waiting for the response
Timeout(k) ==
    /\ calls[k].state = "waiting"
    /\ LET c == OnTimeout(calls[k])
       IN  /\ calls' = [calls EXCEPT ![k] = c]
           /\ backlog' = IF c.sent > calls[k].sent THEN Append(backlog, k) ELSE backlog
    /\ UNCHANGED <<hook, context, config, disk, sysmod, nextGen, registry, rhcRegistry, gRegistry,
                   handling, last, host, addin>>

\* the bridge and its HTTP clients
Next ==
    \/ Connect
    \/ Accept
    \/ \E i \in 1..MaxConns : Handle(i)
    \/ \E d \in DiskStates : EditSource(d)

Spec == Init /\ [][Next]_vars

\* the MCP server as the bridge's only client, on the shipped configuration
InitMcp == Init /\ config.DEV_RELOAD_ENABLED = None

NextMcp ==
    \/ \E k \in 1..NumCalls : CallTool(k)
    \/ \E k \in 1..NumCalls : Timeout(k)
    \/ Accept
    \/ \E i \in 1..MaxConns : Handle(i)

SpecMcp == InitMcp /\ [][NextMcp]_vars

-----------------------------------------------------------------------------
(* A client that works on the design, and the user at the host's UI *)

\* config.py as shipped, no auth token
ShippedConfig ==
    [authToken |-> None, env |-> None, DEV_RELOAD_ENABLED |-> None,
     BRIDGE_DEV_RELOAD |-> "1"]

\* the add-in is running; the developer may have edited its sources since
InitHost ==
    /\ config = ShippedConfig
    /\ disk \in DiskStates
    /\ sysmod = 1
    /\ nextGen = 2
    /\ registry = HandlerRegistry(1)
    /\ rhcRegistry = HandlerRegistry(1)
    /\ gRegistry = HandlerRegistry(1)
    /\ backlog = <<>>
    /\ handling = <<>>
    /\ last = NoLast
    /\ calls = [k \in 1..NumCalls |-> NewCall]
    /\ host = EmptyDesign
    /\ addin = Running
    /\ context = FusionContext
    /\ hook = NotLaunched

\* the client sends its next request once the last one was answered
DesignConnect ==
    /\ addin.server # None
    /\ Open = 0
    /\ backlog' = <<DesignClient>>
    /\ last' = NoLast
    /\ UNCHANGED <<hook, context, config, disk, sysmod, nextGen, registry, rhcRegistry, gRegistry,
                   handling, calls, host, addin>>

\* the user renames a sketch to a name no sketch bears
UserRenameSketch(i, n) ==
    /\ Open = 0
    /\ i \in 1..Len(host.sketches)
    /\ n \in Names \ Range(SketchNames(host))
    /\ host' = [host EXCEPT !.sketches[i].name = n]
    /\ last' = NoLast
    /\ UNCHANGED <<hook, context, config, disk, sysmod, nextGen, registry, rhcRegistry, gRegistry,
                   backlog, handling, calls, addin>>

\* the user deletes a sketch
UserRemoveSketch(i) ==
    /\ Open = 0
    /\ i \in 1..Len(host.sketches)
    /\ host' = [host EXCEPT !.sketches = RemoveAt(@, i)]
    /\ last' = NoLast
    /\ UNCHANGED <<hook, context, config, disk, sysmod, nextGen, registry, rhcRegistry, gRegistry,
                   backlog, handling, calls, addin>>

\* the user renames a body to a name no body bears
UserRenameBody(i, n) ==
    /\ Open = 0
    /\ i \in 1..Len(host.bodies)
    /\ n \in Names \ Range(host.bodies)
    /\ host' = [host EXCEPT !.bodies[i] = n]
    /\ last' = NoLast
    /\ UNCHANGED <<hook, context, config, disk, sysmod, nextGen, registry, rhcRegistry, gRegistry,
                   backlog, handling, calls, addin>>

\* the user deletes a body
UserRemoveBody(i) ==
    /\ Open = 0
    /\ i \in 1..Len(host.bodies)
    /\ host' = [host EXCEPT !.bodies = RemoveAt(@, i)]
    /\ last' = NoLast
    /\ UNCHANGED <<hook, context, config, disk, sysmod, nextGen, registry, rhcRegistry, gRegistry,
                   backlog, handling, calls, addin>>

NextHost ==
    \/ DesignConnect
    \/ Accept
    \/ \E i \in 1..MaxConns : Handle(i)
    \/ \E i \in 1..MaxEntities, n \in Names : UserRenameSketch(i, n)
    \/ \E i \in 1..MaxEntities : UserRemoveSketch(i)
    \/ \E i \in 1..MaxEntities, n \in Names : UserRenameBody(i, n)
    \/ \E i \in 1..MaxEntities : UserRemoveBody(i)

SpecHost == InitHost /\ [][NextHost]_vars

-----------------------------------------------------------------------------
(* The add-in's life: run(), requests, stop() *)

InitLife ==
    /\ config = ShippedConfig
    /\ disk = "ok"
    /\ sysmod = 0
    /\ nextGen = 1
    /\ registry = NoRegistry
    /\ rhcRegistry = NoRegistry
    /\ gRegistry = NoRegistry
    /\ backlog = <<>>
    /\ handling = <<>>
    /\ last = NoLast
    /\ calls = [k \in 1..NumCalls |-> NewCall]
    /\ host = EmptyDesign
    /\ addin = NotStarted
    /\ context = FusionContext
    /\ hook = NotLaunched

\* the host calls run(context)
Run(bind) ==
    /\ addin.pc \in {"unloaded", "stopped", "failed"}
    /\ LET r == run(nextGen, disk, bind)
       IN  /\ r.nextGen <= MaxGen + 1
           /\ sysmod' = r.sysmod
           /\ nextGen' = r.nextGen
           /\ gRegistry' = IF r.assigned THEN r.registry ELSE gRegistry
           /\ registry' = IF r.started THEN r.registry ELSE registry
           /\ rhcRegistry' = IF r.started THEN r.registry ELSE rhcRegistry
           /\ context' = IF r.started THEN FusionContext ELSE context
           /\ addin' = IF r.started THEN Running
                       ELSE [NotStarted EXCEPT !.pc = "failed", !.bind = bind,
                                               !.box = r.box, !.raised = r.raised]
    /\ UNCHANGED <<hook, config, disk, backlog, handling, last, calls, host>>

\* the host calls stop(context): with a server, _server.shutdown() sets the
\* shutdown flag and waits for serve_forever to return; without one, stop
\* goes straight to its end
StopBegin ==
    /\ addin.pc \in {"running", "failed"}
    /\ IF addin.server = None
       THEN /\ addin' = [addin EXCEPT !.pc = "stopped"]
            /\ gRegistry' = NoRegistry
            /\ sysmod' = 0
       ELSE /\ addin' = [addin EXCEPT !.pc = "stopping", !.shutdownRequest = TRUE,
                                      !.inFlightAtStop = handling # <<>>]
            /\ UNCHANGED <<gRegistry, sysmod>>
    /\ UNCHANGED <<hook, context, config, disk, nextGen, registry, rhcRegistry, backlog, handling,
                   last, calls, host>>

\* serve_forever returns and the listener thread ends
ServeExit ==
    /\ addin.serving
    /\ ServeLoopExits(handling, addin.shutdownRequest)
    /\ addin' = [addin EXCEPT !.serving = FALSE, !.shutdownRequest = FALSE]
    /\ UNCHANGED <<hook, context, config, disk, sysmod, nextGen, registry, rhcRegistry, gRegistry,
                   backlog, handling, last, calls, host>>

\* shutdown() has returned: stop drops _server, joins the thread, drops
\* _server_thread and _registry, and purges the bridge modules; the socket
\* goes with the server object
StopEnd ==
    /\ addin.pc = "stopping"
    /\ ~addin.serving
    /\ addin' = [addin EXCEPT !.pc = "stopped", !.server = None,
                              !.serverThread = None,
                              !.purgedInFlight = handling # <<>>]
    /\ gRegistry' = NoRegistry
    /\ sysmod' = 0
    /\ backlog' = <<>>
    /\ UNCHANGED <<hook, context, config, disk, nextGen, registry, rhcRegistry, handling, last,
                   calls, host>>

NextLife ==
    \/ \E bind \in BindOutcomes : Run(bind)
    \/ Connect
    \/ Accept
    \/ \E i \in 1..MaxConns : Handle(i)
    \/ StopBegin
    \/ ServeExit
    \/ StopEnd

SpecLife == InitLife /\ [][NextLife]_vars

-----------------------------------------------------------------------------
(* The hook launcher on its own: one run-hook.py process; no bridge runs.   *)

bridge == <<config, disk, sysmod, nextGen, registry, rhcRegistry, gRegistry,
            backlog, handling, last, calls, host, addin, context>>

InitHook ==
    /\ config = ShippedConfig
    /\ disk = "ok"
    /\ sysmod = 0
    /\ nextGen = 1
    /\ registry = NoRegistry
    /\ rhcRegistry = NoRegistry
    /\ gRegistry = NoRegistry
    /\ backlog = <<>>
    /\ handling = <<>>
    /\ last = NoLast
    /\ calls = [k \in 1..NumCalls |-> NewCall]
    /\ host = EmptyDesign
    /\ addin = NotStarted
    /\ context = FusionContext
    /\ \E argv \in Argvs : hook = [NotLaunched EXCEPT !.pc = "start", !.sys_argv = argv]

\* run-hook.py runs up to sys.exit(1) or up to the start of bash
Launch ==
    /\ hook.pc = "start"
    /\ \E r \in {run_hook(hook.sys_argv)} :
         hook' = [hook EXCEPT !.pc = IF r.ran = <<>> THEN "exited" ELSE "bash",
                              !.ran = r.ran, !.exit = r.exit]
    /\ UNCHANGED bridge

\* bash ends with returncode, and run-hook.py with sys.exit(result.returncode)
BashExit(returncode) ==
    /\ hook.pc = "bash"
    /\ hook' = [hook EXCEPT !.pc = "exited", !.returncode = returncode,
                            !.exit = returncode]
    /\ UNCHANGED bridge

NextHook ==
    \/ Launch
    \/ \E returncode \in ReturnCodes : BashExit(returncode)

SpecHook == InitHook /\ [][NextHook]_vars

-----------------------------------------------------------------------------
(* Properties *)

Served == last.req.method # "NONE"

IsExecute == last.req.method = "POST" /\ last.req.path = "/v1/execute"

IsErrorBody == last.resp.body.status = "error" /\ "error" \in DOMAIN last.resp.body

\* C1: every POST request is answered with HTTP status 200, whatever its path,
\* body and authorization outcome.
C1_PostAlways200 == last.req.method = "POST" => last.resp.status = 200

\* a POST to an unknown path was answered: 200, the failure in the body
C1_Witness ==
    /\ last.req.method = "POST"
    /\ last.req.path = "/other"
    /\ ~last.authRejected
    /\ last.resp.status = 200
    /\ last.resp.body.status = "error"

\* C2: every response to POST /v1/execute has status "ok" or "error"; ok
\* carries result and no error; error carries an error object with code and
\* message and no result.
C2_ExecuteBodyShape ==
    IsExecute =>
        LET b == last.resp.body
        IN  /\ "status" \in DOMAIN b
            /\ b.status \in {"ok", "error"}
            /\ b.status = "ok" => "result" \in DOMAIN b /\ "error" \notin DOMAIN b
            /\ b.status = "error" =>
                   /\ "error" \in DOMAIN b
                   /\ "result" \notin DOMAIN b
                   /\ {"code", "message"} \subseteq DOMAIN b.error

\* an action failed in its validator and the error body was sent
C2_Witness ==
    /\ IsExecute
    /\ last.trace # <<>>
    /\ IsErrorBody
    /\ last.resp.body.error.code = "E_BAD_ARGS"

FourCodes == {"E_BAD_ARGS", "E_RUNTIME", "E_ACTION_UNSUPPORTED", "E_UNAUTHORIZED"}

\* C3 as stated: every error body has one of exactly four error codes.
C3_FourCodes == IsErrorBody => last.resp.body.error.code \in FourCodes

\* C3 as amended: every error body has one of the four codes or one of
\* E_NOT_FOUND, E_BAD_JSON, E_INTERNAL.
C3_SevenCodes ==
    IsErrorBody =>
        last.resp.body.error.code \in
            FourCodes \cup {"E_NOT_FOUND", "E_BAD_JSON", "E_INTERNAL"}

\* an unknown action was answered with the code of ActionNotSupportedError
C3_Witness ==
    /\ IsExecute
    /\ last.req.body.action = "no_such_action"
    /\ IsErrorBody
    /\ last.resp.body.error.code = "E_ACTION_UNSUPPORTED"

\* the request reached dispatch with an action name
Dispatched ==
    /\ IsExecute
    /\ ~last.authRejected
    /\ last.req.body.kind = "object"
    /\ Truthy(last.req.body.action)
    /\ last.req.body.action # UnhashableAction

Methods(trace, m) == {i \in 1..Len(trace) : trace[i].method = m}

\* C4: an action name that is not registered is answered E_ACTION_UNSUPPORTED
\* and no handler is invoked; a registered name invokes exactly the handler
\* registered under it, once.
C4_Dispatch ==
    Dispatched =>
        IF last.req.body.action \notin last.servedBy.handlers
        THEN /\ IsErrorBody
             /\ last.resp.body.error.code = "E_ACTION_UNSUPPORTED"
             /\ last.trace = <<>>
        ELSE /\ Cardinality(Methods(last.trace, "validate")) = 1
             /\ Cardinality(Methods(last.trace, "execute")) <= 1
             /\ \A i \in 1..Len(last.trace) :
                    last.trace[i].handler = last.req.body.action

\* C5: with an auth token configured, a request whose X-Bridge-Token is
\* missing or different is answered E_UNAUTHORIZED before any handler runs,
\* any reload happens or any host state is read; with no token configured,
\* the token check rejects no request.
C5_Auth ==
    Served =>
        /\ (config.authToken # None /\ last.req.token # config.authToken) =>
               /\ last.authRejected
               /\ IsErrorBody
               /\ last.resp.body.error.code = "E_UNAUTHORIZED"
               /\ last.trace = <<>>
               /\ last.reload = "none"
        /\ config.authToken = None => ~last.authRejected

\* an action request with a wrong token was turned away
C5_Witness ==
    /\ config.authToken = "secret"
    /\ IsExecute
    /\ last.req.token = "wrong"
    /\ last.req.body.action = "create_sketch"
    /\ last.authRejected

\* C6: at most one request is being handled at any moment.
C6_Serial == Len(handling) <= 1

\* a connection waits while another request is being handled
C6_Witness == Len(handling) = 1 /\ Len(backlog) >= 1

\* C7: every call into the host made while serving a request runs on the
\* host application's main thread.
C7_HostCallsOnMainThread ==
    \A i \in 1..Len(last.trace) : last.trace[i].thread = MainThread

\* C8: one tool call sends at most one HTTP request and causes at most one
\* execution of the action's handler, whatever failure ends it.
C8_NoRetry ==
    \A k \in 1..NumCalls :
        /\ calls[k].sent <= 1
        /\ calls[k].execs <= calls[k].sent

\* a call ended by a timeout; the bridge ran its handler once all the same
C8_Witness ==
    \E k \in 1..NumCalls :
        /\ calls[k].state = "done"
        /\ calls[k].result = BridgeErrorResult("E_TIMEOUT", "Action timed out")
        /\ calls[k].sent = 1
        /\ calls[k].execs = 1

\* C9: when the bridge answers with error code c, the tool result carries c
\* as its error code.
C9_CodeVerbatim ==
    \A k \in 1..NumCalls :
        (calls[k].state = "done" /\ calls[k].bridgeCode # None) =>
            calls[k].result.error_code = calls[k].bridgeCode

\* C10: list_tools, _TOOL_HANDLERS and the registry name the same actions,
\* and each tool forwards to the bridge action of its own name.
C10_SameActionSet ==
    /\ ListToolNames = DOMAIN _TOOL_HANDLERS
    /\ DOMAIN _TOOL_HANDLERS = rhcRegistry.handlers
    /\ \A k \in 1..NumCalls :
           /\ calls[k].sent > 0 => calls[k].action = calls[k].tool
           /\ (calls[k].state = "done" /\ calls[k].tool \in ListToolNames) =>
                  calls[k].result # create_error_response(
                      "Unknown tool: " \o calls[k].tool, "UNKNOWN_TOOL")
    /\ (last.client # 0 /\ Served /\ ~last.authRejected) =>
           /\ last.trace # <<>>
           /\ last.trace[1].handler = calls[last.client].tool

\* the rotate_body tool was called and the bridge's rotate_body handler
\* answered it
C10_Witness ==
    \E k \in 1..NumCalls :
        /\ calls[k].state = "done"
        /\ calls[k].tool = "rotate_body"
        /\ calls[k].result = create_json_response([action |-> "rotate_body"])

\* the names the host's root component holds for the collection a lookup reads
NamesNow(fn, h) == IF fn = "resolve_sketch" THEN SketchNames(h) ELSE h.bodies

IsLookup(c) == c.fn \in {"resolve_sketch", "resolve_body_ref"}

\* C11: in every request, each resolve_sketch and resolve_body_ref lookup
\* answers from the design as it is when the request is served: the entity
\* it returns bears the requested name now, and it fails, with E_BAD_ARGS,
\* only when no entity bears that name now.
C11_ResolvedNow ==
    [][\A k \in 1..Len(last'.hostCalls) :
           LET c     == last'.hostCalls[k]
               names == NamesNow(c.fn, host)
           IN  IsLookup(c) =>
                   /\ c.index # 0 =>
                          c.index \in 1..Len(names) /\ names[c.index] = c.on
                   /\ c.index = 0 =>
                          c.on \notin Range(names) /\ c.code = "E_BAD_ARGS"]_vars

\* a sketch name was found at the second place of the sketches
C11_Witness ==
    \E k \in 1..Len(last.hostCalls) :
        /\ last.hostCalls[k].fn = "resolve_sketch"
        /\ last.hostCalls[k].on = NameOf(1)
        /\ last.hostCalls[k].index = 2
        /\ last.hostCalls[k].code = None

\* C12: handle() calls validate first; it calls execute only when validate
\* returned, and with the arguments validate returned; when validate raised,
\* execute is not called in that request.
C12_ValidateThenExecute ==
    (IsExecute /\ last.trace # <<>>) =>
        /\ last.trace[1].method = "validate"
        /\ Len(last.trace) <= 2
        /\ last.trace[1].exc # None => Len(last.trace) = 1
        /\ Len(last.trace) = 2 =>
               /\ last.trace[2].method = "execute"
               /\ last.trace[2].handler = last.trace[1].handler
               /\ last.trace[2].arg = last.trace[1].ret

\* create_sketch was asked with a padded name and a lower-case plane;
\* execute got the stripped name and the upper-case plane
C12_Witness ==
    /\ IsExecute
    /\ last.req.body.action = "create_sketch"
    /\ Len(last.trace) = 2
    /\ last.trace[1].arg.name = Padded(NameOf(1))
    /\ last.trace[2].arg.name = NameOf(1)
    /\ last.trace[2].arg.plane = "XY"
    /\ last.resp.body.status = "ok"

\* an exception other than ValidationError left validate or execute
HandlerRaisedOther ==
    \E i \in 1..Len(last.trace) :
        /\ last.trace[i].method \in {"validate", "execute"}
        /\ last.trace[i].exc \notin {None, "ValidationError"}

\* C13: handle_action ends by returning a result or by raising
\* ActionNotSupportedError, ValidationError or FusionAPIError, and an
\* exception of any other class raised by validate or execute leaves it as a
\* FusionAPIError (E_RUNTIME).
C13_FourOutcomes ==
    /\ last.outcome \in {NotCalled, HasReturned, "ActionNotSupportedError",
                         "ValidationError", "FusionAPIError"}
    /\ HandlerRaisedOther => last.outcome = "FusionAPIError"

\* C14: whatever reloads went before, a ValidationError raised while serving
\* /v1/execute is answered with E_BAD_ARGS and an ActionNotSupportedError with
\* E_ACTION_UNSUPPORTED.
C14_RaisedClassesCaught ==
    IsExecute =>
        /\ last.outcome = "ValidationError" =>
               IsErrorBody /\ last.resp.body.error.code = "E_BAD_ARGS"
        /\ last.outcome = "ActionNotSupportedError" =>
               IsErrorBody /\ last.resp.body.error.code = "E_ACTION_UNSUPPORTED"

\* C15: the registry requests are dispatched with, the one bound to
\* server.RequestHandlerClass and the module-global _registry are one and the
\* same: the registry built by the latest successful reload, or start_server's
\* if none succeeded.  A failed reload changes none of them.
C15_OneRegistry ==
    /\ registry = rhcRegistry
    /\ rhcRegistry = gRegistry
    /\ registry.handlers = RegisteredActions
    /\ Served =>
           IF last.reload = "ok"
           THEN registry.gen > last.servedBy.gen /\ registry.gen = sysmod
           ELSE registry = last.servedBy

\* a reload succeeded, and then one failed with E_RUNTIME: the registry of
\* the successful one is still the one in use
C15_Witness ==
    /\ last.req.path = "/dev/reload"
    /\ last.reload = "failed"
    /\ last.resp.body.error.code = "E_RUNTIME"
    /\ registry.gen = 2
    /\ registry = last.servedBy
    /\ sysmod # registry.gen

BadArgsAnswer(l) ==
    /\ l.req.method = "POST"
    /\ l.req.path = "/v1/execute"
    /\ l.resp.body.status = "error"
    /\ l.resp.body.error.code = "E_BAD_ARGS"

MutatingCalls(l) == {k \in 1..Len(l.hostCalls) : l.hostCalls[k].fn = "mutate"}

NoIndex == [json |-> "none", tenths |-> 0]

\* the index a request names, NoIndex when it names none
IndexOf(args) ==
    IF "index" \in DOMAIN args THEN args.index
    ELSE IF "profile_index" \in DOMAIN args THEN args.profile_index
    ELSE IF "faceRef" \in DOMAIN args THEN args.faceRef.index
    ELSE NoIndex

\* a JSON value that is an integer 0, 1, 2, ...
IsNonNegativeInteger(v) == v.json = "number" /\ v.tenths >= 0 /\ v.tenths % 10 = 0

ItemCalls(l) == {k \in 1..Len(l.hostCalls) : l.hostCalls[k].fn = "item"}

\* C17: faces.item, profiles.item and sketchLines.item are called only with
\* an integer i, 0 <= i < count; a request whose index is negative or no
\* integer reads no indexed collection and its handler ends with a
\* ValidationError (E_BAD_ARGS).
C17_IndexInRange ==
    /\ \A k \in ItemCalls(last) :
           /\ last.hostCalls[k].index >= 0
           /\ last.hostCalls[k].index < last.hostCalls[k].count
    /\ (/\ IsExecute
        /\ last.trace # <<>>
        /\ IndexOf(last.req.body.args) # NoIndex
        /\ ~IsNonNegativeInteger(IndexOf(last.req.body.args)))
       => /\ ItemCalls(last) = {}
          /\ last.outcome = "ValidationError"

Distinct(s) == \A i, j \in 1..Len(s) : s[i] = s[j] => i = j

\* the request asks to create a parameter or a sketch under a name that
\* design h already has
DuplicateName(req, h) ==
    /\ req.method = "POST"
    /\ req.path = "/v1/execute"
    /\ \/ /\ req.body.action = "create_parameter"
          /\ Strip(req.body.args.name) \in Range(h.params)
       \/ /\ req.body.action \in {"create_sketch", "create_sketch_from_face"}
          /\ Strip(req.body.args.name) \in Range(SketchNames(h))

\* C18: create_parameter, create_sketch and create_sketch_from_face answer a
\* name the design already has with E_BAD_ARGS and create nothing, and the
\* names of the user parameters and of the sketches stay pairwise distinct.
C18_DuplicateNamesRejected ==
    /\ [](Distinct(host.params) /\ Distinct(SketchNames(host)))
    /\ [][DuplicateName(last'.req, host) =>
              BadArgsAnswer(last') /\ host' = host]_vars

\* C19: once stop() has returned, no request is in progress and none is
\* accepted any more, _server, _server_thread and _registry are None, and the
\* bridge modules were not purged while a request was being handled.
C19_StoppedIsQuiet ==
    addin.pc = "stopped" =>
        /\ handling = <<>>
        /\ ~addin.serving
        /\ ~ENABLED Accept
        /\ addin.server = None
        /\ addin.serverThread = None
        /\ gRegistry = NoRegistry
        /\ sysmod = 0
        /\ ~addin.purgedInFlight

\* stop() was called while a request was being handled, and has returned
C19_Witness ==
    /\ addin.pc = "stopped"
    /\ addin.inFlightAtStop
    /\ Served
    /\ handling = <<>>

\* C20: when the bind fails because the port is in use, run() shows the
\* "Port ... is already in use" box, when it fails for lack of permission
\* the "Permission denied" box, and raises the error again.
C20_SpecificStartupBox ==
    addin.pc = "failed" =>
        /\ addin.raised.cls # None
        /\ addin.bind = "in_use" => addin.box = "Port is already in use"
        /\ addin.bind = "denied" => addin.box = "Permission denied for port"

\* C21: the response to a POST /v1/execute whose body is a JSON object
\* carries the request's id when that id is non-empty, whether the status is
\* ok or error, and carries no id field when the request has none.
C21_IdEchoed ==
    (IsExecute /\ last.req.body.kind = "object") =>
        IF Truthy(last.req.body.id)
        THEN /\ "id" \in DOMAIN last.resp.body
             /\ last.resp.body.id = last.req.body.id
        ELSE "id" \notin DOMAIN last.resp.body


\* the BRIDGE_DEV_RELOAD environment variable is unset and the config flag in
\* force (DEV_RELOAD_ENABLED, or BRIDGE_DEV_RELOAD when that one is absent)
\* does not enable the reload
ReloadNotEnabled ==
    /\ config.env = None
    /\ IF config.DEV_RELOAD_ENABLED # None
       THEN config.DEV_RELOAD_ENABLED = "False"
       ELSE config.BRIDGE_DEV_RELOAD \in {None, "0"}

IsReloadRequest(l) == l.req.method = "POST" /\ l.req.path = "/dev/reload"

\* C22: while dev reload is not enabled, a POST /dev/reload is answered with
\* E_UNAUTHORIZED and leaves the registry, the handler-class binding, the
\* global registry and the loaded modules as they were.
C22_DisabledReloadChangesNothing ==
    [][(/\ Len(handling') < Len(handling)
        /\ IsReloadRequest(last')
        /\ ReloadNotEnabled) =>
           /\ last'.resp.status = 200
           /\ last'.resp.body.status = "error"
           /\ last'.resp.body.error.code = "E_UNAUTHORIZED"
           /\ last'.reload = "none"
           /\ registry' = registry
           /\ rhcRegistry' = rhcRegistry
           /\ gRegistry' = gRegistry
           /\ sysmod' = sysmod
           /\ nextGen' = nextGen]_vars

\* a reload was refused as disabled, not for its token, after the sources on
\* disk had changed
C22_Witness ==
    /\ IsReloadRequest(last)
    /\ ReloadNotEnabled
    /\ ~last.authRejected
    /\ last.resp.body.error.code = "E_UNAUTHORIZED"
    /\ disk # "ok"
    /\ registry.gen = 1
    /\ sysmod = 1


\* C23: the FusionContext holds no host object between requests: its fields
\* refer to nothing of the host once a request has been answered.
C23_NoHostObjectHeld == context._app = None


\* the path starts with a drive: a letter and a colon
HasDrive(p) == Len(p) >= 2 /\ p[1] \in {"C", "c", "d"} /\ p[2] = ":"

\* a path in POSIX form: no backslash and no leading drive
PosixForm(p) == ~HasDrive(p) /\ \A i \in 1..Len(p) : p[i] # Backslash

\* b is the letter a in lower case
LowerCaseOf(a, b) == (a = "C" /\ b = "c") \/ (a \in {"c", "d"} /\ b = a)

\* C24: run-hook.py runs bash on its script argument with every backslash
\* turned into a slash and a leading drive "X:" into "/x", a path in POSIX form
\* being left as it is (the conversion tts-notify.py's to_posix does); the
\* remaining arguments follow unchanged; it exits with bash's return code;
\* without a script argument it exits with code 1 and runs nothing.
C24_HookLaunchesBash ==
    LET argv == hook.sys_argv
    IN  hook.pc \in {"bash", "exited"} =>
            IF Len(argv) < 2
            THEN hook.pc = "exited" /\ hook.exit = 1 /\ hook.ran = <<>>
            ELSE LET script == argv[2]
                     given  == hook.ran[2]
                     first  == IF HasDrive(script) THEN 3 ELSE 1
                 IN  /\ Len(hook.ran) = Len(argv)
                     /\ hook.ran[1] = "bash"
                     /\ Len(given) = Len(script)
                     /\ HasDrive(script) =>
                            given[1] = "/" /\ LowerCaseOf(script[1], given[2])
                     /\ \A i \in first..Len(script) :
                            given[i] = IF script[i] = Backslash THEN "/" ELSE script[i]
                     /\ PosixForm(script) => given = script
                     /\ given = to_posix(script)
                     /\ \A k \in 3..Len(argv) : hook.ran[k] = argv[k]
                     /\ hook.pc = "exited" =>
                            /\ hook.returncode \in ReturnCodes
                            /\ hook.exit = hook.returncode

\* bash ran /c/d for the script argument C:\d with two more arguments, and
\* its return code 127 became the launcher's exit code
C24_Witness ==
    /\ hook.pc = "exited"
    /\ hook.sys_argv = <<"run-hook.py", <<"C", ":", Backslash, "d">>, "a b", "-v">>
    /\ hook.ran = <<"bash", <<"/", "c", "/", "d">>, "a b", "-v">>
    /\ hook.exit = 127

====
